---- MODULE Spec2Model ----
(***************************************************************************)
(* Chrome SNSS session file parser (internal/database/session_chrome.go).  *)
(*                                                                         *)
(* parseSessionFile reads a header, then a loop of framed records; each    *)
(* record is handed to SessionParser.processCommand, which mutates the     *)
(* maps of tabs, windows and groups; at end of file buildTabEntries turns  *)
(* the store into the list of tab entries.                                 *)
(*                                                                         *)
(* The file is revealed to the parser piece by piece: every step draws the *)
(* bytes that lie next in the file (the header, one record, or the tail    *)
(* the file ends with) from a finite menu and runs the code's reads on     *)
(* them.  Strings are sequences of byte values, wide strings sequences of  *)
(* 16-bit code units, a Go map is a function whose domain is the set of    *)
(* keys inserted so far, and a pointer to a map entry is the entry's key   *)
(* (entries are never removed or replaced).                                *)
(***************************************************************************)
EXTENDS Integers, Sequences, FiniteSets, TLC

\* -------------------------------------------------------------- bounds
\* The ids of tabs and windows are 0..MaxId.
MaxId == 1
\* The record loop processes at most MaxRecords commands before the file ends.
MaxRecords == 2

Ids == 0..MaxId

\* The history indexes and the positions in a window that the commands of the
\* files carry.
Indexes == {0, 1}

\* ------------------------------------------------ SNSS command types
kCommandSetTabWindow == 0
kCommandSetTabIndexInWindow == 2
kCommandUpdateTabNavigation == 6
kCommandSetSelectedNavigationIndex == 7
kCommandSetSelectedTabInIndex == 8
kCommandTabClosed == 16
kCommandWindowClosed == 17
kCommandSetActiveWindow == 20
kCommandSetTabGroup == 25
kCommandSetTabGroupMetadata2 == 27

RecognizedTypes ==
    { kCommandSetTabWindow, kCommandSetTabIndexInWindow, kCommandUpdateTabNavigation,
      kCommandSetSelectedNavigationIndex, kCommandSetSelectedTabInIndex,
      kCommandTabClosed, kCommandWindowClosed, kCommandSetActiveWindow,
      kCommandSetTabGroup, kCommandSetTabGroupMetadata2 }

\* ------------------------------------------------------ byte helpers
Drop(s, n) == SubSeq(s, n + 1, Len(s))

Take(s, n) == SubSeq(s, 1, n)

\* io.ReadFull(r, buf) with len(buf) = n on a reader holding the bytes b:
\* n bytes and a nil error when n bytes are there (also for n = 0); otherwise
\* the reader is drained and the error is io.EOF when no byte was read and
\* io.ErrUnexpectedEOF when some were.
ReadFull(b, n) ==
    IF Len(b) >= n
    THEN [data |-> Take(b, n), err |-> "nil", rest |-> Drop(b, n)]
    ELSE [data |-> b, err |-> IF Len(b) = 0 THEN "EOF" ELSE "ErrUnexpectedEOF", rest |-> <<>>]

readUint8(b) ==
    LET r == ReadFull(b, 1)
    IN  IF r.err # "nil"
        THEN [v |-> 0, err |-> r.err, rest |-> r.rest]
        ELSE [v |-> r.data[1], err |-> "nil", rest |-> r.rest]

readUint16(b) ==
    LET r == ReadFull(b, 2)
    IN  IF r.err # "nil"
        THEN [v |-> 0, err |-> r.err, rest |-> r.rest]
        ELSE [v |-> r.data[1] + 256 * r.data[2], err |-> "nil", rest |-> r.rest]

readUint32(b) ==
    LET r == ReadFull(b, 4)
    IN  IF r.err # "nil"
        THEN [v |-> 0, err |-> r.err, rest |-> r.rest]
        ELSE [v |-> r.data[4] * 16777216 + r.data[3] * 65536 + r.data[2] * 256 + r.data[1],
              err |-> "nil", rest |-> r.rest]

\* A uint64 is kept as its two 32-bit words: hi is bytes 5..8, lo bytes 1..4.
Zero64 == [hi |-> 0, lo |-> 0]

readUint64(b) ==
    LET r == ReadFull(b, 8)
    IN  IF r.err # "nil"
        THEN [v |-> Zero64, err |-> r.err, rest |-> r.rest]
        ELSE [v |-> [hi |-> r.data[8] * 16777216 + r.data[7] * 65536 + r.data[6] * 256 + r.data[5],
                     lo |-> r.data[4] * 16777216 + r.data[3] * 65536 + r.data[2] * 256 + r.data[1]],
              err |-> "nil", rest |-> r.rest]

\* A uint32 whose value may reach 2^32 - 1 is kept as its two 16-bit halves,
\* and its arithmetic is done on the halves: the sum and the double with the
\* carry kept in hi, and Wrap32 for what 32 bits hold of them.
U32(hi, lo) == [hi |-> hi, lo |-> lo]

Wrap32(x) == U32(x.hi % 65536, x.lo)

Plus(x, k) == U32(x.hi + ((x.lo + k) \div 65536), (x.lo + k) % 65536)

Twice(x) == U32(2 * x.hi + ((2 * x.lo) \div 65536), (2 * x.lo) % 65536)

Greater32(x, y) == x.hi > y.hi \/ (x.hi = y.hi /\ x.lo > y.lo)

\* readUint32 for a length prefix: the same read, the value in halves.
readSize(b) ==
    LET r == ReadFull(b, 4)
    IN  IF r.err # "nil"
        THEN [v |-> U32(0, 0), err |-> r.err, rest |-> r.rest]
        ELSE [v |-> U32(r.data[4] * 256 + r.data[3], r.data[2] * 256 + r.data[1]),
              err |-> "nil", rest |-> r.rest]

\* if rsz%4 != 0 { rsz += 4 - (rsz % 4) }: rsz rounded up to a multiple of 4
\* (Chrome 32-bit aligns pickled data), in uint32 arithmetic.
Align4(rsz) == IF rsz.lo % 4 # 0 THEN Wrap32(Plus(rsz, 4 - (rsz.lo % 4))) ELSE rsz

\* b := make([]byte, rsz); io.ReadFull(r, b) on a reader holding the bytes b,
\* which are fewer than 2^16 (a payload has at most 65534 bytes): a length
\* of 2^16 or more is more than the reader holds.
MakeAndReadFull(b, rsz) == ReadFull(b, IF rsz.hi = 0 THEN rsz.lo ELSE Len(b) + 1)

\* readString returning the first rsz bytes read, padding included.
readStringKeepsPadding(b) ==
    LET n == readSize(b)
        rsz == Align4(n.v)
        r == MakeAndReadFull(n.rest, rsz)
    IN  IF n.err # "nil" THEN [v |-> <<>>, err |-> n.err, rest |-> n.rest]
        ELSE IF r.err # "nil" THEN [v |-> <<>>, err |-> r.err, rest |-> r.rest]
        ELSE IF Greater32(n.v, rsz) THEN [v |-> <<>>, err |-> "panic", rest |-> r.rest]
        ELSE [v |-> r.data, err |-> "nil", rest |-> r.rest]

\* The error "panic" stands for the run-time panic of b[:sz] when sz is
\* more than the rsz bytes of b (slice bounds out of range).
readString(b) ==
    LET n == readSize(b)
        rsz == Align4(n.v)
        r == MakeAndReadFull(n.rest, rsz)
    IN  IF n.err # "nil" THEN [v |-> <<>>, err |-> n.err, rest |-> n.rest]
        ELSE IF r.err # "nil" THEN [v |-> <<>>, err |-> r.err, rest |-> r.rest]
        ELSE IF Greater32(n.v, rsz) THEN [v |-> <<>>, err |-> "panic", rest |-> r.rest]
        ELSE [v |-> Take(r.data, n.v.lo), err |-> "nil", rest |-> r.rest]

\* utf16.Decode(s) as the code points of the string returned: a surrogate
\* pair is one code point, a surrogate without its partner is U+FFFD.
RECURSIVE Decode(_)
Decode(s) ==
    IF s = <<>> THEN <<>>
    ELSE IF s[1] < 55296 \/ s[1] > 57343 THEN <<s[1]>> \o Decode(Tail(s))
    ELSE IF s[1] < 56320 /\ Len(s) >= 2 /\ s[2] >= 56320 /\ s[2] <= 57343
         THEN <<65536 + (s[1] - 55296) * 1024 + (s[2] - 56320)>> \o Decode(Tail(Tail(s)))
    ELSE <<65533>> \o Decode(Tail(s))

\* The code units the loop of readString16 collects from b: it runs while
\* i < int(sz*2), the product in uint32 arithmetic, and reads b[i] and
\* b[i+1]; in readString16 the error "panic" stands for the run-time panic of
\* these reads when b has fewer than sz*2 bytes (index out of range).
Units16(b, sz) ==
    [i \in 1..(Wrap32(Twice(sz)).lo \div 2) |-> b[2 * i] * 256 + b[2 * i - 1]]

readString16(b) ==
    LET n == readSize(b)
        rsz == Align4(Wrap32(Twice(n.v)))
        r == MakeAndReadFull(n.rest, rsz)
    IN  IF n.err # "nil" THEN [v |-> <<>>, err |-> n.err, rest |-> n.rest]
        ELSE IF r.err # "nil" THEN [v |-> <<>>, err |-> r.err, rest |-> r.rest]
        ELSE IF Greater32(Wrap32(Twice(n.v)), rsz)
             THEN [v |-> <<>>, err |-> "panic", rest |-> r.rest]
        ELSE [v |-> Decode(Units16(r.data, n.v)), err |-> "nil", rest |-> r.rest]

\* ----------------------------------------------------- the store
\* fmt.Sprintf("%x", v) for a 32-bit word: its hexadecimal digits, most
\* significant first, without leading zeros ("0" for zero).
RECURSIVE HexDigits(_)
HexDigits(n) == IF n < 16 THEN <<n>> ELSE Append(HexDigits(n \div 16), n % 16)

\* The 8 hexadecimal digits of a 32-bit word, leading zeros kept.
HexPad8(n) == [i \in 1..8 |-> (n \div (16 ^ (8 - i))) % 16]

\* fmt.Sprintf("%x", v) for a uint64 held as two words.
Hex64(v) == IF v.hi = 0 THEN HexDigits(v.lo) ELSE HexDigits(v.hi) \o HexPad8(v.lo)

\* key := fmt.Sprintf("%x%x", high, low)
GroupKey(high, low) == Hex64(high) \o Hex64(low)

\* &sessionTab{id: id}: every other field has Go's zero value.
NewTab(id) ==
    [id |-> id, history |-> <<>>, idx |-> 0, win |-> 0, deleted |-> FALSE,
     currentHistoryIdx |-> 0, group |-> {}]

\* &sessionWindow{id: id}
NewWindow(id) == [id |-> id, activeTabIdx |-> 0, deleted |-> FALSE]

\* The maps after the lookup: the entry is inserted when the key is absent.
getWindow(ws, id) == IF id \in DOMAIN ws THEN ws ELSE ws @@ (id :> NewWindow(id))

getGroup(gs, high, low) ==
    LET key == GroupKey(high, low)
    IN  IF key \in DOMAIN gs THEN gs ELSE gs @@ (key :> [high |-> high, low |-> low, name |-> <<>>])

\* The lookup that stores a new tab under the id whether or not one is there.
getTabAlwaysNew(ts, id) ==
    [t \in DOMAIN ts \cup {id} |-> IF t = id THEN NewTab(id) ELSE ts[t]]

getTab(ts, id) == IF id \in DOMAIN ts THEN ts ELSE ts @@ (id :> NewTab(id))

\* The position of the first history item with index histIdx, 0 when none.
FindItem(history, histIdx) ==
    IF \E i \in 1..Len(history) : history[i].idx = histIdx
    THEN CHOOSE i \in 1..Len(history) :
            /\ history[i].idx = histIdx
            /\ \A j \in 1..(i - 1) : history[j].idx # histIdx
    ELSE 0

\* The upsert without the lookup: every command appends an item.
UpsertHistoryAppends(history, histIdx, urlStr, title) ==
    Append(history, [idx |-> histIdx, url |-> urlStr, title |-> title])

\* The upsert of UpdateTabNavigation on one tab's history.
UpsertHistory(history, histIdx, urlStr, title) ==
    LET i == FindItem(history, histIdx)
        item == [idx |-> histIdx, url |-> urlStr, title |-> title]
    IN  IF i = 0 THEN Append(history, item) ELSE [history EXCEPT ![i] = item]

\* The store as one value, for the operators below.
Store(ts, ws, gs, aw) == [tabs |-> ts, windows |-> ws, groups |-> gs, activeWindow |-> aw]

\* The reads of each case of the switch, in the order of the code.  Every
\* result is used whether or not the read failed: a failed read gives 0 (or
\* the empty string) and leaves the buffer empty.
UpdateTabNavigationReads(data) ==
    LET size == readUint32(data)
        id == readUint32(size.rest)
        histIdx == readUint32(id.rest)
        urlStr == readString(histIdx.rest)
        title == readString16(urlStr.rest)
    IN  [size |-> size, id |-> id, histIdx |-> histIdx, urlStr |-> urlStr, title |-> title]

SetTabGroupMetadata2Reads(data) ==
    LET size == readUint32(data)
        high == readUint64(size.rest)
        low == readUint64(high.rest)
        name == readString16(low.rest)
    IN  [size |-> size, high |-> high, low |-> low, name |-> name]

SetTabGroupReads(data) ==
    LET id == readUint32(data)
        padding == readUint32(id.rest)
        high == readUint64(padding.rest)
        low == readUint64(high.rest)
    IN  [id |-> id, padding |-> padding, high |-> high, low |-> low]

\* Two 32-bit fields (the cases with an id and a value), and one.
TwoReads(data) ==
    LET first == readUint32(data)
        second == readUint32(first.rest)
    IN  [first |-> first, second |-> second]

OneRead(data) == [first |-> readUint32(data)]

UpdateTabNavigation(S, data) ==
    LET r == UpdateTabNavigationReads(data)
    IN  [S EXCEPT !.tabs = [getTab(S.tabs, r.id.v) EXCEPT ![r.id.v].history =
                                UpsertHistory(@, r.histIdx.v, r.urlStr.v, r.title.v)]]

SetSelectedTabInIndex(S, data) ==
    LET id == TwoReads(data).first
        idx == TwoReads(data).second
    IN  [S EXCEPT !.windows = [getWindow(S.windows, id.v) EXCEPT ![id.v].activeTabIdx = idx.v]]

SetTabGroupMetadata2(S, data) ==
    LET r == SetTabGroupMetadata2Reads(data)
    IN  [S EXCEPT !.groups = [getGroup(S.groups, r.high.v, r.low.v)
                                 EXCEPT ![GroupKey(r.high.v, r.low.v)].name = r.name.v]]

SetTabGroup(S, data) ==
    LET r == SetTabGroupReads(data)
    IN  [S EXCEPT !.tabs = [getTab(S.tabs, r.id.v) EXCEPT ![r.id.v].group =
                                {GroupKey(r.high.v, r.low.v)}],
                  !.groups = getGroup(S.groups, r.high.v, r.low.v)]

\* The case with the two fields read in the other order: id, then win.
SetTabWindowIdFirst(S, data) ==
    LET id == TwoReads(data).first
        win == TwoReads(data).second
    IN  [S EXCEPT !.tabs = [getTab(S.tabs, id.v) EXCEPT ![id.v].win = win.v]]

SetTabWindow(S, data) ==
    LET win == TwoReads(data).first
        id == TwoReads(data).second
    IN  [S EXCEPT !.tabs = [getTab(S.tabs, id.v) EXCEPT ![id.v].win = win.v]]

\* The case that also drops the active-window reference to the closed window.
WindowClosedUnsetsActive(S, data) ==
    LET id == OneRead(data).first
    IN  [S EXCEPT !.windows = [getWindow(S.windows, id.v) EXCEPT ![id.v].deleted = TRUE],
                  !.activeWindow = S.activeWindow \ {id.v}]

WindowClosed(S, data) ==
    LET id == OneRead(data).first
    IN  [S EXCEPT !.windows = [getWindow(S.windows, id.v) EXCEPT ![id.v].deleted = TRUE]]

\* TabClosed flipping the deleted flag.
TabClosedToggles(S, data) ==
    LET id == OneRead(data).first
    IN  [S EXCEPT !.tabs = [getTab(S.tabs, id.v) EXCEPT ![id.v].deleted = ~@]]

TabClosed(S, data) ==
    LET id == OneRead(data).first
    IN  [S EXCEPT !.tabs = [getTab(S.tabs, id.v) EXCEPT ![id.v].deleted = TRUE]]

SetTabIndexInWindow(S, data) ==
    LET id == TwoReads(data).first
        index == TwoReads(data).second
    IN  [S EXCEPT !.tabs = [getTab(S.tabs, id.v) EXCEPT ![id.v].idx = index.v]]

SetActiveWindow(S, data) ==
    LET id == OneRead(data).first
    IN  [S EXCEPT !.windows = getWindow(S.windows, id.v), !.activeWindow = {id.v}]

SetSelectedNavigationIndex(S, data) ==
    LET id == TwoReads(data).first
        idx == TwoReads(data).second
    IN  [S EXCEPT !.tabs = [getTab(S.tabs, id.v) EXCEPT ![id.v].currentHistoryIdx = idx.v]]

\* The reads processCommand makes on the payload of a command of type typ.
FieldReads(typ, data) ==
    CASE typ = kCommandUpdateTabNavigation -> UpdateTabNavigationReads(data)
      [] typ = kCommandSetTabGroupMetadata2 -> SetTabGroupMetadata2Reads(data)
      [] typ = kCommandSetTabGroup -> SetTabGroupReads(data)
      [] typ \in {kCommandTabClosed, kCommandWindowClosed, kCommandSetActiveWindow} -> OneRead(data)
      [] typ \in {kCommandSetTabWindow, kCommandSetTabIndexInWindow,
                   kCommandSetSelectedNavigationIndex, kCommandSetSelectedTabInIndex} -> TwoReads(data)
      [] OTHER -> <<>>

\* processCommand with a default case that closes the tab the payload names.
processCommandWithDefault(S, typ, data) ==
    IF typ \in RecognizedTypes
    THEN CASE typ = kCommandUpdateTabNavigation -> UpdateTabNavigation(S, data)
           [] typ = kCommandSetSelectedTabInIndex -> SetSelectedTabInIndex(S, data)
           [] typ = kCommandSetTabGroupMetadata2 -> SetTabGroupMetadata2(S, data)
           [] typ = kCommandSetTabGroup -> SetTabGroup(S, data)
           [] typ = kCommandSetTabWindow -> SetTabWindow(S, data)
           [] typ = kCommandWindowClosed -> WindowClosed(S, data)
           [] typ = kCommandTabClosed -> TabClosed(S, data)
           [] typ = kCommandSetTabIndexInWindow -> SetTabIndexInWindow(S, data)
           [] typ = kCommandSetActiveWindow -> SetActiveWindow(S, data)
           [] typ = kCommandSetSelectedNavigationIndex -> SetSelectedNavigationIndex(S, data)
    ELSE TabClosed(S, data)

\* switch typ { ... }: a type with no case leaves the store as it is.
processCommand(S, typ, data) ==
    CASE typ = kCommandUpdateTabNavigation -> UpdateTabNavigation(S, data)
      [] typ = kCommandSetSelectedTabInIndex -> SetSelectedTabInIndex(S, data)
      [] typ = kCommandSetTabGroupMetadata2 -> SetTabGroupMetadata2(S, data)
      [] typ = kCommandSetTabGroup -> SetTabGroup(S, data)
      [] typ = kCommandSetTabWindow -> SetTabWindow(S, data)
      [] typ = kCommandWindowClosed -> WindowClosed(S, data)
      [] typ = kCommandTabClosed -> TabClosed(S, data)
      [] typ = kCommandSetTabIndexInWindow -> SetTabIndexInWindow(S, data)
      [] typ = kCommandSetActiveWindow -> SetActiveWindow(S, data)
      [] typ = kCommandSetSelectedNavigationIndex -> SetSelectedNavigationIndex(S, data)
      [] OTHER -> S

\* ------------------------------------------------------ assembly
\* sort.Slice on at most 12 elements is an insertion sort: an element moves
\* left past the elements that are greater under less, so equal elements
\* keep the order they came in.
RECURSIVE InsertByIdx(_, _)
InsertByIdx(sorted, x) ==
    IF sorted = <<>> THEN <<x>>
    ELSE IF x.idx < sorted[Len(sorted)].idx
         THEN Append(InsertByIdx(Take(sorted, Len(sorted) - 1), x), sorted[Len(sorted)])
         ELSE Append(sorted, x)

RECURSIVE SortByIdx(_)
SortByIdx(s) == IF s = <<>> THEN <<>> ELSE InsertByIdx(SortByIdx(Take(s, Len(s) - 1)), s[Len(s)])

\* The orders in which a range over a map with key set K may visit the keys.
IterationOrders(K) ==
    { o \in [1..Cardinality(K) -> K] : \A i, j \in 1..Cardinality(K) : i # j => o[i] # o[j] }

\* The first loop without the sort.Slice on t.history.
SortedTabsKeepsArrivalOrder(ts) == ts

\* First loop of buildTabEntries: every history is sorted and every tab's
\* window is looked up, which inserts it when it is missing.
SortedTabs(ts) == [id \in DOMAIN ts |-> [ts[id] EXCEPT !.history = SortByIdx(@)]]

\* The first loop looking the window up without inserting it.
AssociatedWindowsKnownOnly(ws, ts, ids) == ws

RECURSIVE AssociatedWindows(_, _, _)
AssociatedWindows(ws, ts, ids) ==
    IF ids = {} THEN ws
    ELSE LET id == CHOOSE x \in ids : TRUE
         IN  AssociatedWindows(getWindow(ws, ts[id].win), ts, ids \ {id})

\* The first loop appending every tab to every window.
AppendedTabsEveryWindow(ts, tabOrder, i, win) == [j \in 1..Len(tabOrder) |-> ts[tabOrder[j]]]

\* w.tabs: the tabs with t.win = w.id in the order the range over p.tabs
\* visited them, then sorted by idx.
RECURSIVE AppendedTabs(_, _, _, _)
AppendedTabs(ts, tabOrder, i, win) ==
    IF i > Len(tabOrder) THEN <<>>
    ELSE IF ts[tabOrder[i]].win = win
         THEN <<ts[tabOrder[i]]>> \o AppendedTabs(ts, tabOrder, i + 1, win)
         ELSE AppendedTabs(ts, tabOrder, i + 1, win)

\* w.tabs without the sort.Slice on idx.
WindowTabsUnsorted(ts, tabOrder, win) == AppendedTabs(ts, tabOrder, 1, win)

WindowTabs(ts, tabOrder, win) == SortByIdx(AppendedTabs(ts, tabOrder, 1, win))

\* The resolution with the fallback taking t.history[0].
CurrentItemFallsBackToFirst(t) ==
    LET i == FindItem(t.history, t.currentHistoryIdx)
        found == IF i = 0 THEN [url |-> <<>>, title |-> <<>>]
                 ELSE [url |-> t.history[i].url, title |-> t.history[i].title]
        first == t.history[1]
    IN  IF found.url = <<>> /\ Len(t.history) > 0
        THEN [url |-> first.url, title |-> first.title]
        ELSE found

\* The first history item whose idx is currentHistoryIdx gives url and
\* title; with an empty url so far and a non-empty history the last item does.
CurrentItem(t) ==
    LET i == FindItem(t.history, t.currentHistoryIdx)
        found == IF i = 0 THEN [url |-> <<>>, title |-> <<>>]
                 ELSE [url |-> t.history[i].url, title |-> t.history[i].title]
        last == t.history[Len(t.history)]
    IN  IF found.url = <<>> /\ Len(t.history) > 0
        THEN [url |-> last.url, title |-> last.title]
        ELSE found

GroupName(S, t) ==
    IF t.group # {} /\ (\E k \in t.group : S.groups[k].name # <<>>)
    THEN S.groups[CHOOSE k \in t.group : TRUE].name
    ELSE <<>>

browserName == "chrome"

\* TabEntry with Active computed without isActiveWindow.
TabEntryActiveInAnyWindow(S, w, t, idx, windowID) ==
    [url |-> CurrentItem(t).url, title |-> CurrentItem(t).title,
     active |-> idx = w.activeTabIdx,
     group |-> GroupName(S, t), windowId |-> windowID, browser |-> browserName,
     tab |-> t.id, win |-> w.id]

\* TabEntry with Active computed from the tab's idx in place of the counter.
TabEntryActiveByOrder(S, w, t, idx, windowID) ==
    [url |-> CurrentItem(t).url, title |-> CurrentItem(t).title,
     active |-> (S.activeWindow = {w.id}) /\ t.idx = w.activeTabIdx,
     group |-> GroupName(S, t), windowId |-> windowID, browser |-> browserName,
     tab |-> t.id, win |-> w.id]

\* One models.TabEntry.  Domain (ExtractDomain(url), defined outside this
\* file) is left out.  tab and win are not fields of the entry: they record
\* which tab and which window the entry was built from.
TabEntry(S, w, t, idx, windowID) ==
    [url |-> CurrentItem(t).url, title |-> CurrentItem(t).title,
     active |-> (S.activeWindow = {w.id}) /\ idx = w.activeTabIdx,
     group |-> GroupName(S, t), windowId |-> windowID, browser |-> browserName,
     tab |-> t.id, win |-> w.id]

\* The tab loop without "if t.deleted { continue }".
RECURSIVE TabLoopKeepsClosed(_, _, _, _, _, _)
TabLoopKeepsClosed(S, w, wtabs, i, idx, windowID) ==
    IF i > Len(wtabs) THEN <<>>
    ELSE IF CurrentItem(wtabs[i]).url = <<>>
         THEN TabLoopKeepsClosed(S, w, wtabs, i + 1, idx, windowID)
         ELSE <<TabEntry(S, w, wtabs[i], idx, windowID)>>
                  \o TabLoopKeepsClosed(S, w, wtabs, i + 1, idx + 1, windowID)

\* The tab loop without "if tabURL == "" { continue }".
RECURSIVE TabLoopKeepsEmpty(_, _, _, _, _, _)
TabLoopKeepsEmpty(S, w, wtabs, i, idx, windowID) ==
    IF i > Len(wtabs) THEN <<>>
    ELSE IF wtabs[i].deleted
         THEN TabLoopKeepsEmpty(S, w, wtabs, i + 1, idx, windowID)
         ELSE <<TabEntry(S, w, wtabs[i], idx, windowID)>>
                  \o TabLoopKeepsEmpty(S, w, wtabs, i + 1, idx + 1, windowID)

\* for _, t := range w.tabs: idx counts the entries appended so far.
RECURSIVE TabLoop(_, _, _, _, _, _)
TabLoop(S, w, wtabs, i, idx, windowID) ==
    IF i > Len(wtabs) THEN <<>>
    ELSE IF wtabs[i].deleted \/ CurrentItem(wtabs[i]).url = <<>>
         THEN TabLoop(S, w, wtabs, i + 1, idx, windowID)
         ELSE <<TabEntry(S, w, wtabs[i], idx, windowID)>>
                  \o TabLoop(S, w, wtabs, i + 1, idx + 1, windowID)

\* The window loop with windowID++ ahead of "if w.deleted { continue }".
RECURSIVE WindowLoopCountsClosed(_, _, _, _, _)
WindowLoopCountsClosed(S, tabOrder, winOrder, i, windowID) ==
    IF i > Len(winOrder) THEN <<>>
    ELSE LET w == S.windows[winOrder[i]]
         IN  IF w.deleted
             THEN WindowLoopCountsClosed(S, tabOrder, winOrder, i + 1, windowID + 1)
             ELSE TabLoop(S, w, WindowTabs(S.tabs, tabOrder, w.id), 1, 0, windowID + 1)
                      \o WindowLoopCountsClosed(S, tabOrder, winOrder, i + 1, windowID + 1)

\* for _, w := range p.windows: windowID counts the windows not deleted.
RECURSIVE WindowLoop(_, _, _, _, _)
WindowLoop(S, tabOrder, winOrder, i, windowID) ==
    IF i > Len(winOrder) THEN <<>>
    ELSE LET w == S.windows[winOrder[i]]
         IN  IF w.deleted
             THEN WindowLoop(S, tabOrder, winOrder, i + 1, windowID)
             ELSE TabLoop(S, w, WindowTabs(S.tabs, tabOrder, w.id), 1, 0, windowID + 1)
                      \o WindowLoop(S, tabOrder, winOrder, i + 1, windowID + 1)

\* The store as the first loop of buildTabEntries leaves it.
Associated(S) ==
    [S EXCEPT !.tabs = SortedTabs(S.tabs),
              !.windows = AssociatedWindows(S.windows, S.tabs, DOMAIN S.tabs)]

\* buildTabEntries when the range over p.tabs visits the tabs in tabOrder
\* and the last range over p.windows visits the windows in winOrder.
buildTabEntries(S, tabOrder, winOrder) == WindowLoop(Associated(S), tabOrder, winOrder, 1, 0)

\* Every entry list buildTabEntries can return on the store S.
BuildOutcomes(S) ==
    { buildTabEntries(S, tabOrder, winOrder) :
        tabOrder \in IterationOrders(DOMAIN S.tabs),
        winOrder \in IterationOrders(DOMAIN Associated(S).windows) }

\* ------------------------------------------------- the file's bytes
\* What a writer of the format puts in the file: little-endian integers and
\* length-prefixed strings padded with zero bytes to a multiple of 4.
Le16(v) == <<v % 256, (v \div 256) % 256>>

Le32(v) == <<v % 256, (v \div 256) % 256, (v \div 65536) % 256, (v \div 16777216) % 256>>

Le64(v) == Le32(v) \o <<0, 0, 0, 0>>

Padding(n) == [i \in 1..((4 - (n % 4)) % 4) |-> 0]

EncString(str) == Le32(Len(str)) \o str \o Padding(Len(str))

RECURSIVE Units(_)
Units(str) == IF str = <<>> THEN <<>> ELSE Le16(Head(str)) \o Units(Tail(str))

EncString16(str) == Le32(Len(str)) \o Units(str) \o Padding(2 * Len(str))

Cmd(typ, payload) == [typ |-> typ, payload |-> payload]

\* The texts of the navigation entries: (url, title) is ("", ""), ("a", "A") or ("bc", "B").
NavTexts ==
    { [url |-> <<>>, title |-> <<>>], [url |-> <<97>>, title |-> <<65>>],
      [url |-> <<98, 99>>, title |-> <<66>>] }

\* The group ids (high, low): their hexadecimal digits are 1, 11 and 11, 1.
GroupIds == { <<1, 17>>, <<17, 1>> }

GroupNames == { <<>>, <<71>> }

\* The commands as a writer of the format lays them out (the payload
\* fields of each type, in order).  The leading word of the two pickled
\* payloads is the size of what follows it.
Pickled(body) == Le32(Len(body)) \o body

SetTabWindowCmd(win, id) == Cmd(kCommandSetTabWindow, Le32(win) \o Le32(id))

SetTabIndexInWindowCmd(id, index) == Cmd(kCommandSetTabIndexInWindow, Le32(id) \o Le32(index))

UpdateTabNavigationCmd(id, histIdx, text) ==
    Cmd(kCommandUpdateTabNavigation,
        Pickled(Le32(id) \o Le32(histIdx) \o EncString(text.url) \o EncString16(text.title)))

SetSelectedNavigationIndexCmd(id, idx) ==
    Cmd(kCommandSetSelectedNavigationIndex, Le32(id) \o Le32(idx))

SetSelectedTabInIndexCmd(win, idx) == Cmd(kCommandSetSelectedTabInIndex, Le32(win) \o Le32(idx))

TabClosedCmd(id) == Cmd(kCommandTabClosed, Le32(id))

WindowClosedCmd(win) == Cmd(kCommandWindowClosed, Le32(win))

SetActiveWindowCmd(win) == Cmd(kCommandSetActiveWindow, Le32(win))

SetTabGroupCmd(id, g) == Cmd(kCommandSetTabGroup, Le32(id) \o Le32(0) \o Le64(g[1]) \o Le64(g[2]))

SetTabGroupMetadata2Cmd(g, name) ==
    Cmd(kCommandSetTabGroupMetadata2, Pickled(Le64(g[1]) \o Le64(g[2]) \o EncString16(name)))

\* The well-formed commands: every field of the payload is there.
WellFormed ==
    { SetTabWindowCmd(w, t) : w \in Ids, t \in Ids }
    \cup { SetTabIndexInWindowCmd(t, x) : t \in Ids, x \in Indexes }
    \cup { UpdateTabNavigationCmd(t, h, x) : t \in Ids, h \in Indexes, x \in NavTexts }
    \cup { SetSelectedNavigationIndexCmd(t, x) : t \in Ids, x \in Indexes }
    \cup { SetSelectedTabInIndexCmd(w, x) : w \in Ids, x \in Indexes }
    \cup { TabClosedCmd(t) : t \in Ids }
    \cup { WindowClosedCmd(w) : w \in Ids }
    \cup { SetActiveWindowCmd(w) : w \in Ids }
    \cup { SetTabGroupCmd(t, g) : t \in Ids, g \in GroupIds }
    \cup { SetTabGroupMetadata2Cmd(g, n) : g \in GroupIds, n \in GroupNames }

\* The commands cut short: one command of each type, every id and index
\* MaxId and every string non-empty, with only the first k bytes of its
\* payload: none of them, and all but the last two.
ToCut ==
    { SetTabWindowCmd(MaxId, MaxId), SetTabIndexInWindowCmd(MaxId, MaxId),
      UpdateTabNavigationCmd(MaxId, MaxId, [url |-> <<97>>, title |-> <<65>>]),
      SetSelectedNavigationIndexCmd(MaxId, MaxId), SetSelectedTabInIndexCmd(MaxId, MaxId),
      TabClosedCmd(MaxId), WindowClosedCmd(MaxId), SetActiveWindowCmd(MaxId),
      SetTabGroupCmd(MaxId, <<17, 1>>), SetTabGroupMetadata2Cmd(<<17, 1>>, <<71>>) }

Cuts(len) == {0} \cup (IF len > 4 THEN {len - 2} ELSE {})

Short == UNION { { Cmd(c.typ, Take(c.payload, k)) : k \in Cuts(Len(c.payload)) } : c \in ToCut }

\* Commands of a type the switch has no case for.
Unrecognized == { Cmd(1, Le32(MaxId)), Cmd(99, <<>>) }

Commands == WellFormed \cup Short \cup Unrecognized

\* A record in the file: size (type byte and payload), type, payload.
Record(c) == Le16(Len(c.payload) + 1) \o <<c.typ>> \o c.payload

\* The ways the file may end inside a record: after one byte of the size,
\* before the type, before the payload, and inside the payload.
Tails ==
    LET r == Record(TabClosedCmd(MaxId))
    IN  { Take(r, k) : k \in {1, 2, 3, Len(r) - 1} }

\* A record whose size field is 0.
ZeroSized == { <<0, 0, 99>> }

\* The first 8 bytes of the file, or all of it when it is shorter.
SNSS == <<83, 78, 83, 83>>

Headers ==
    { SNSS \o Le32(v) : v \in 0..4 }
    \cup { <<83, 78, 83, 88>> \o Le32(1), <<>>, Take(SNSS, 2), SNSS, SNSS \o <<1, 0>> }

\* --------------------------------------------------------- the state
\* pc            where parseSessionFile is: "header" (called, nothing read),
\*               "loop" (in the record loop), "done" (returned the entries),
\*               "error" (returned nil and an error), "panic"
\* err           the error returned, "nil" when none
\* tabs, windows, groups, activeWindow   the fields of the SessionParser
\* entries       the entries returned
\* rec           the bytes the last step was given: what followed in the
\*               file when the header was read ("header") or when an
\*               iteration of the record loop began ("loop")
\* nrec          the number of calls of processCommand so far
VARIABLES pc, err, tabs, windows, groups, activeWindow, entries, rec, nrec

vars == <<pc, err, tabs, windows, groups, activeWindow, entries, rec, nrec>>

Read(kind, bytes) == [kind |-> kind, bytes |-> bytes]

Init ==
    /\ pc = "header"
    /\ err = "nil"
    /\ tabs = <<>>
    /\ windows = <<>>
    /\ groups = <<>>
    /\ activeWindow = {}
    /\ entries = <<>>
    /\ rec = Read("start", <<>>)
    /\ nrec = 0

\* The store held in the variables.
store == Store(tabs, windows, groups, activeWindow)

SetStore(S) ==
    /\ tabs' = S.tabs
    /\ windows' = S.windows
    /\ groups' = S.groups
    /\ activeWindow' = S.activeWindow

\* The header checks with the version taken as a range, 1 to 3.
CheckHeaderVersionRange(fh) ==
    LET magic == ReadFull(fh, 4)
        ver == readUint32(magic.rest)
    IN  IF magic.err # "nil" THEN "failed to read magic header"
        ELSE IF magic.data # SNSS THEN "invalid SNSS file: bad magic header"
        ELSE IF ver.err # "nil" THEN "failed to read version"
        ELSE IF ver.v < 1 \/ ver.v > 3 THEN "unsupported SNSS version"
        ELSE "nil"

\* The header checks of parseSessionFile on a file that starts with fh:
\* "nil" or the error returned.
CheckHeader(fh) ==
    LET magic == ReadFull(fh, 4)
        ver == readUint32(magic.rest)
    IN  IF magic.err # "nil" THEN "failed to read magic header"
        ELSE IF magic.data # SNSS THEN "invalid SNSS file: bad magic header"
        ELSE IF ver.err # "nil" THEN "failed to read version"
        ELSE IF ver.v # 1 /\ ver.v # 3 THEN "unsupported SNSS version"
        ELSE "nil"

\* The reads of the record loop with every failed read of the size taken
\* as the end of the file (err != nil in place of err == io.EOF).
FrameAnySizeErrorBreaks(fh) ==
    LET sz == readUint16(fh)
        typ == readUint8(sz.rest)
        buf == ReadFull(typ.rest, sz.v - 1)
    IN  IF sz.err # "nil" THEN [status |-> "break"]
        ELSE IF typ.err # "nil" THEN [status |-> "failed to read command type"]
        ELSE IF sz.v - 1 < 0 THEN [status |-> "panic"]
        ELSE IF buf.err # "nil" THEN [status |-> "failed to read command payload"]
        ELSE [status |-> "command", typ |-> typ.v, data |-> buf.data, rest |-> buf.rest]

\* One pass through the reads of the record loop on a file whose unread
\* bytes are fh: the loop breaks, fails, panics (make with a negative
\* length) or has a command to process.
Frame(fh) ==
    LET sz == readUint16(fh)
        typ == readUint8(sz.rest)
        buf == ReadFull(typ.rest, sz.v - 1)
    IN  IF sz.err = "EOF" THEN [status |-> "break"]
        ELSE IF sz.err # "nil" THEN [status |-> "failed to read command size"]
        ELSE IF typ.err # "nil" THEN [status |-> "failed to read command type"]
        ELSE IF sz.v - 1 < 0 THEN [status |-> "panic"]
        ELSE IF buf.err # "nil" THEN [status |-> "failed to read command payload"]
        ELSE [status |-> "command", typ |-> typ.v, data |-> buf.data, rest |-> buf.rest]

\* The store of a finished call: parser is a local of parseSessionFile and
\* is gone when it returns without a result.
Discard ==
    /\ tabs' = <<>>
    /\ windows' = <<>>
    /\ groups' = <<>>
    /\ activeWindow' = {}

\* parseSessionFile up to the record loop.
ParseHeader ==
    /\ pc = "header"
    /\ \E fh \in Headers :
        /\ rec' = Read("header", fh)
        /\ err' = CheckHeader(fh)
        /\ pc' = IF CheckHeader(fh) = "nil" THEN "loop" ELSE "error"
    /\ UNCHANGED <<tabs, windows, groups, activeWindow, entries, nrec>>

\* What may lie in the file where an iteration of the record loop begins:
\* a record, nothing, a part of a record, or a record of size 0.
Records == { Record(c) : c \in Commands }

LoopInputs == Records \cup {<<>>} \cup Tails \cup ZeroSized

\* The inputs with what the reads of the iteration make of them.
\* crash: processCommand is called and one of its reads panics.
Crashes(f) ==
    /\ f.status = "command"
    /\ LET r == FieldReads(f.typ, f.data)
       IN  \E k \in DOMAIN r : r[k].err = "panic"

Framed(inputs) == { [fh |-> fh, f |-> Frame(fh), crash |-> Crashes(Frame(fh))] : fh \in inputs }

LoopFramed == Framed(LoopInputs)

\* The iteration with processCommand returning the error of a failed field
\* read and the loop returning it.
ReadCommandFailsOnField(framed, limit) ==
    /\ pc = "loop"
    /\ nrec < limit
    /\ \E x \in framed :
        /\ x.f.status = "command"
        /\ ~x.crash
        /\ rec' = Read("loop", x.fh)
        /\ LET r == FieldReads(x.f.typ, x.f.data)
           IN  IF \E k \in DOMAIN r : r[k].err # "nil"
               THEN /\ pc' = "error"
                    /\ err' = "failed to process command"
                    /\ Discard
               ELSE /\ SetStore(processCommand(store, x.f.typ, x.f.data))
                    /\ UNCHANGED <<pc, err>>
    /\ nrec' = nrec + 1
    /\ UNCHANGED entries

\* An iteration of the record loop that reads a whole record and processes
\* it; at most limit records are processed.
ReadCommandOf(framed, limit) ==
    /\ pc = "loop"
    /\ nrec < limit
    /\ \E x \in framed :
        /\ x.f.status = "command"
        /\ ~x.crash
        /\ SetStore(processCommand(store, x.f.typ, x.f.data))
        /\ rec' = Read("loop", x.fh)
    /\ nrec' = nrec + 1
    /\ UNCHANGED <<pc, err, entries>>

\* The iteration in which the loop breaks: buildTabEntries gives the result.
EndOfFileOf(framed) ==
    /\ pc = "loop"
    /\ \E x \in framed :
        /\ x.f.status = "break"
        /\ rec' = Read("loop", x.fh)
    /\ \E tabOrder \in IterationOrders(DOMAIN tabs) :
         \E winOrder \in IterationOrders(DOMAIN Associated(store).windows) :
            entries' = buildTabEntries(store, tabOrder, winOrder)
    /\ SetStore(Associated(store))
    /\ pc' = "done"
    /\ UNCHANGED <<err, nrec>>

\* The iteration in which a read fails: parseSessionFile returns nil and the error.
ReadFailsOf(framed) ==
    /\ pc = "loop"
    /\ \E x \in framed :
        /\ x.f.status \notin {"break", "command", "panic"}
        /\ err' = x.f.status
        /\ rec' = Read("loop", x.fh)
    /\ pc' = "error"
    /\ Discard
    /\ UNCHANGED <<entries, nrec>>

\* The iteration that reads a size of 0: make([]byte, -1) panics.
MakePanicsOf(framed) ==
    /\ pc = "loop"
    /\ \E x \in framed :
        /\ x.f.status = "panic"
        /\ rec' = Read("loop", x.fh)
    /\ pc' = "panic"
    /\ Discard
    /\ UNCHANGED <<err, entries, nrec>>

ReadCommand == ReadCommandOf(LoopFramed, MaxRecords)

EndOfFile == EndOfFileOf(LoopFramed)

ReadFails == ReadFailsOf(LoopFramed)

MakePanics == MakePanicsOf(LoopFramed)

Next == ParseHeader \/ ReadCommand \/ EndOfFile \/ ReadFails \/ MakePanics


Spec == Init /\ [][Next]_vars

\* ------------------------------------- files of well-formed commands
\* The files whose records are all well-formed commands on tabs and windows,
\* MaxBuild of them at most: long enough for a window with two tabs and an
\* active tab, which the files of Spec are not.
MaxBuild == 3

BuildTexts == { x \in NavTexts : Len(x.url) <= 1 }

BuildCommands ==
    { UpdateTabNavigationCmd(t, 0, x) : t \in Ids, x \in BuildTexts }
    \cup { SetTabWindowCmd(w, t) : w \in Ids, t \in Ids }
    \cup { SetSelectedTabInIndexCmd(w, x) : w \in Ids, x \in Indexes }
    \cup { TabClosedCmd(t) : t \in Ids }
    \cup { WindowClosedCmd(w) : w \in Ids }
    \cup { SetActiveWindowCmd(w) : w \in Ids }

BuildFramed == Framed({ Record(c) : c \in BuildCommands })

ReadBuildCommand == ReadCommandOf(BuildFramed, MaxBuild)

NextBuild == ParseHeader \/ ReadBuildCommand \/ EndOfFile

SpecBuild == Init /\ [][NextBuild]_vars

\* ------------------------------------------ files of navigation commands
\* The files whose records are well-formed UpdateTabNavigation and
\* SetSelectedNavigationIndex commands, MaxHistory of them at most, with the
\* history indexes 0..MaxHistIdx: three items can arrive in any order, and
\* the selected index can miss both of two items.
MaxHistory == 3

MaxHistIdx == 2

HistIdxs == 0..MaxHistIdx

HistoryTabs == {0, 1}

HistoryCommands ==
    { UpdateTabNavigationCmd(t, h, x) : t \in HistoryTabs, h \in HistIdxs, x \in NavTexts }
    \cup { SetSelectedNavigationIndexCmd(t, h) : t \in HistoryTabs, h \in HistIdxs }

HistoryFramed == Framed({ Record(c) : c \in HistoryCommands })

ReadHistoryCommand == ReadCommandOf(HistoryFramed, MaxHistory)

NextHistory == ParseHeader \/ ReadHistoryCommand \/ EndOfFile

SpecHistory == Init /\ [][NextHistory]_vars

\* ------------------------------------------- files of ordering commands
\* The files whose records are well-formed commands that place tabs with a
\* URL in windows and at positions, close tabs and choose the active window
\* and its active position, MaxOrder of them at most.
MaxOrder == 3

OrderCommands ==
    { UpdateTabNavigationCmd(t, 0, [url |-> <<97>>, title |-> <<65>>]) : t \in Ids }
    \cup { SetTabIndexInWindowCmd(t, x) : t \in Ids, x \in Indexes }
    \cup { SetTabWindowCmd(w, t) : w \in Ids, t \in Ids }
    \cup { SetSelectedTabInIndexCmd(w, x) : w \in Ids, x \in Indexes }
    \cup { SetActiveWindowCmd(w) : w \in Ids }
    \cup { TabClosedCmd(t) : t \in Ids }

OrderFramed == Framed({ Record(c) : c \in OrderCommands })

ReadOrderCommand == ReadCommandOf(OrderFramed, MaxOrder)

NextOrder == ParseHeader \/ ReadOrderCommand \/ EndOfFile

SpecOrder == Init /\ [][NextOrder]_vars

\* ------------------------------------------- the string readers alone
\* One call of readString, of readString16 or of the reads of
\* UpdateTabNavigation on a buffer that holds a length prefix and up to
\* MaxTail bytes after it, a part of a prefix, or a navigation payload.
\* The prefixes are the small lengths and the lengths next to 2^16, 2^31
\* and 2^32; the bytes after them hold the code units 0x0061, 0xD83D,
\* 0xDE00 (a surrogate pair), 0x0162 and 0xDC00.
MaxTail == 8

Prefixes ==
    { Le32(n) : n \in 0..5 }
    \cup { <<0, 0, 1, 0>>, <<255, 255, 255, 127>>, <<0, 0, 0, 128>>, <<1, 0, 0, 128>>,
           <<2, 0, 0, 128>>, <<252, 255, 255, 255>>, <<253, 255, 255, 255>>,
           <<255, 255, 255, 255>> }

AfterPrefix == <<97, 0, 61, 216, 0, 222, 98, 1, 0, 220, 100, 0>>

StringTexts ==
    { [url |-> Take(<<97, 98, 99, 100, 101>>, k), title |-> Take(<<65, 66>>, j)] :
        k \in 0..5, j \in 0..2 }

NavigationPayloads == { UpdateTabNavigationCmd(1, 0, x).payload : x \in StringTexts }

StringInputs ==
    { x \o Take(AfterPrefix, k) : x \in Prefixes, k \in 0..MaxTail }
    \cup { <<>>, <<1>>, <<1, 0, 0>> }
    \cup NavigationPayloads

InitStrings ==
    /\ pc = "call"
    /\ err = "nil"
    /\ tabs = <<>>
    /\ windows = <<>>
    /\ groups = <<>>
    /\ activeWindow = {}
    /\ entries = <<>>
    /\ rec \in { Read("call", b) : b \in StringInputs }
    /\ nrec = 0

\* The call returns r, or panics: rec keeps the buffer, the string returned
\* and what the call left in the buffer.
Returns(kind, r) ==
    /\ pc' = IF r.err = "panic" THEN "panic" ELSE "returned"
    /\ err' = IF r.err = "panic" THEN err ELSE r.err
    /\ rec' = [kind |-> kind, bytes |-> rec.bytes, v |-> r.v, rest |-> r.rest]
    /\ UNCHANGED <<tabs, windows, groups, activeWindow, entries, nrec>>

CallReadString == pc = "call" /\ Returns("readString", readString(rec.bytes))

CallReadString16 == pc = "call" /\ Returns("readString16", readString16(rec.bytes))

\* The reads of case kCommandUpdateTabNavigation up to the title.
CallNavigationReads ==
    /\ pc = "call"
    /\ rec.bytes \in NavigationPayloads
    /\ Returns("title", UpdateTabNavigationReads(rec.bytes).title)

NextStrings == CallReadString \/ CallReadString16 \/ CallNavigationReads

SpecStrings == InitStrings /\ [][NextStrings]_vars

\* --------------------------------------------------- whole files
\* The file is there from the start: rec holds the bytes the reader fh has
\* not given out yet.  A file is a header, at most MaxStream records and
\* an end: nothing, or a part of a record.  The records are well-formed
\* commands, recognized commands with a payload shorter than their fields
\* or with bytes after their fields, a command of no recognized type, a
\* navigation whose url has the length prefix 0xFFFFFFFF, and a record of
\* size 0.
MaxStream == 2

StreamCommands ==
    { TabClosedCmd(0),
      UpdateTabNavigationCmd(0, 0, [url |-> <<97>>, title |-> <<65>>]),
      SetActiveWindowCmd(1),
      Cmd(kCommandSetTabWindow, Le32(1)),
      Cmd(kCommandUpdateTabNavigation, Take(UpdateTabNavigationCmd(1, 0, [url |-> <<97>>, title |-> <<65>>]).payload, 14)),
      Cmd(kCommandSetTabIndexInWindow, Le32(0) \o Le32(1) \o <<5, 0, 16>>),
      Cmd(kCommandUpdateTabNavigation, Le32(0) \o Le32(0) \o Le32(0) \o <<255, 255, 255, 255>>),
      Cmd(99, <<7>>) }

StreamRecords == { Record(c) : c \in StreamCommands } \cup ZeroSized

RECURSIVE Bodies(_)
Bodies(k) ==
    IF k = 0 THEN { <<>> }
    ELSE Bodies(k - 1) \cup { r \o b : r \in StreamRecords, b \in Bodies(k - 1) }

StreamFiles ==
    { SNSS \o Le32(1) \o b \o t : b \in Bodies(MaxStream), t \in Tails \cup { <<>> } }
    \cup { SNSS \o Le32(2) \o b : b \in Bodies(1) }

Unread(bytes) == Read("unread", bytes)

InitStream ==
    /\ pc = "header"
    /\ err = "nil"
    /\ tabs = <<>>
    /\ windows = <<>>
    /\ groups = <<>>
    /\ activeWindow = {}
    /\ entries = <<>>
    /\ rec \in { Unread(f) : f \in StreamFiles }
    /\ nrec = 0

\* parseSessionFile up to the record loop: the header checks read 8 bytes.
StreamHeader ==
    /\ pc = "header"
    /\ err' = CheckHeader(rec.bytes)
    /\ pc' = IF CheckHeader(rec.bytes) = "nil" THEN "loop" ELSE "error"
    /\ rec' = Unread(Drop(rec.bytes, 8))
    /\ UNCHANGED <<tabs, windows, groups, activeWindow, entries, nrec>>

\* What the reads of processCommand leave in the buffer they read from.
ReadsLeave(typ, data) ==
    LET r == FieldReads(typ, data)
    IN  CASE typ = kCommandUpdateTabNavigation -> r.title.rest
          [] typ = kCommandSetTabGroupMetadata2 -> r.name.rest
          [] typ = kCommandSetTabGroup -> r.low.rest
          [] typ \in {kCommandTabClosed, kCommandWindowClosed, kCommandSetActiveWindow} -> r.first.rest
          [] typ \in {kCommandSetTabWindow, kCommandSetTabIndexInWindow,
                       kCommandSetSelectedNavigationIndex, kCommandSetSelectedTabInIndex} -> r.second.rest
          [] OTHER -> data

\* The iteration with fh left where it was before the record.
StreamCommandKeepsPosition ==
    /\ pc = "loop"
    /\ Frame(rec.bytes).status = "command"
    /\ ~Crashes(Frame(rec.bytes))
    /\ SetStore(processCommand(store, Frame(rec.bytes).typ, Frame(rec.bytes).data))
    /\ nrec' = IF nrec < MaxStream THEN nrec + 1 ELSE nrec
    /\ UNCHANGED <<pc, err, entries, rec>>

\* The iteration with processCommand reading from fh itself, not from a
\* buffer of the payload.
StreamCommandSharesReader ==
    /\ pc = "loop"
    /\ Frame(rec.bytes).status = "command"
    /\ ~Crashes(Frame(rec.bytes))
    /\ SetStore(processCommand(store, Frame(rec.bytes).typ, Drop(rec.bytes, 3)))
    /\ rec' = Unread(ReadsLeave(Frame(rec.bytes).typ, Drop(rec.bytes, 3)))
    /\ nrec' = nrec + 1
    /\ UNCHANGED <<pc, err, entries>>

\* An iteration of the record loop that reads a whole record and processes
\* it: fh has given out the size, the type and the payload.
StreamCommand ==
    /\ pc = "loop"
    /\ Frame(rec.bytes).status = "command"
    /\ ~Crashes(Frame(rec.bytes))
    /\ SetStore(processCommand(store, Frame(rec.bytes).typ, Frame(rec.bytes).data))
    /\ rec' = Unread(Frame(rec.bytes).rest)
    /\ nrec' = nrec + 1
    /\ UNCHANGED <<pc, err, entries>>

\* The iteration in which processCommand panics.
StreamProcessPanics ==
    /\ pc = "loop"
    /\ Crashes(Frame(rec.bytes))
    /\ rec' = Unread(Frame(rec.bytes).rest)
    /\ pc' = "panic"
    /\ Discard
    /\ nrec' = nrec + 1
    /\ UNCHANGED <<err, entries>>

\* The iteration in which the loop breaks: buildTabEntries gives the result.
StreamEnd ==
    /\ pc = "loop"
    /\ Frame(rec.bytes).status = "break"
    /\ \E tabOrder \in IterationOrders(DOMAIN tabs) :
         \E winOrder \in IterationOrders(DOMAIN Associated(store).windows) :
            entries' = buildTabEntries(store, tabOrder, winOrder)
    /\ SetStore(Associated(store))
    /\ pc' = "done"
    /\ UNCHANGED <<err, rec, nrec>>

\* The iteration in which a read fails: fh is at its end.
StreamFails ==
    /\ pc = "loop"
    /\ Frame(rec.bytes).status \notin {"break", "command", "panic"}
    /\ err' = Frame(rec.bytes).status
    /\ rec' = Unread(<<>>)
    /\ pc' = "error"
    /\ Discard
    /\ UNCHANGED <<entries, nrec>>

\* The iteration that reads a size of 0 and a type: make([]byte, -1) panics.
StreamMakePanics ==
    /\ pc = "loop"
    /\ Frame(rec.bytes).status = "panic"
    /\ rec' = Unread(Drop(rec.bytes, 3))
    /\ pc' = "panic"
    /\ Discard
    /\ UNCHANGED <<err, entries, nrec>>

NextStream ==
    \/ StreamHeader
    \/ StreamCommand
    \/ StreamProcessPanics
    \/ StreamEnd
    \/ StreamFails
    \/ StreamMakePanics

SpecStream == InitStream /\ [][NextStream]_vars

\* A step of a call that is not over: it leaves the header checks, ends the
\* loop or counts a record.  Every step of NextStream is one, and a call
\* that is not over can take one.
Running ==
    /\ pc \in {"header", "loop"}
    /\ pc' \in {"loop", "done", "error", "panic"}
    /\ nrec' \in {nrec, nrec + 1}

\* parseSessionFile is sequential code: a call that is not over goes on.
SpecStreamRuns == SpecStream /\ WF_<<pc, nrec>>(Running)

\* ------------------------------------------------------------ claims
\* What the caller sees of the entries: the fields of models.TabEntry.
Visible(es) ==
    [i \in 1..Len(es) |->
        [url |-> es[i].url, title |-> es[i].title, active |-> es[i].active,
         group |-> es[i].group, windowId |-> es[i].windowId, browser |-> es[i].browser]]

\* The layout of the file: a record is a 2-byte size, and size more bytes,
\* the first of them the type.
SizeField(b) == b[1] + 256 * b[2]

WholeRecord(b) == Len(b) >= 3 /\ Len(b) = 2 + SizeField(b)

TypeByte(b) == b[3]

PayloadBytes(b) == SubSeq(b, 4, Len(b))

\* The last step read a whole record: the one processCommand is called on.
Processed == rec.kind = "loop" /\ WholeRecord(rec.bytes)

\* The command the last step processed was of a recognized type and a read
\* of one of its fields failed.
DecodeFailed ==
    /\ Processed
    /\ TypeByte(rec.bytes) \in RecognizedTypes
    /\ LET r == FieldReads(TypeByte(rec.bytes), PayloadBytes(rec.bytes))
       IN  \E k \in DOMAIN r : r[k].err # "nil"

\* The last step processed the command c, all of it.
After(c) == rec = Read("loop", Record(c))

\* The last step processed a command of type typ.
Was(typ) == Processed /\ TypeByte(rec.bytes) = typ

\* C1: parsing is deterministic.  Every entry list buildTabEntries can return
\* on the store the file leaves (whatever the order in which the ranges over
\* the maps visit tabs and windows) is the list that was returned: same
\* entries, same order, same windowId.
C1_Deterministic ==
    pc = "done" => \A o \in BuildOutcomes(store) : Visible(o) = Visible(entries)

\* C2: a recognized command whose payload is too short for its fields is
\* abandoned.  The step that processes such a command leaves tabs, windows,
\* groups and the active window as they were: no entity is created, none is
\* changed.
C2_ShortCommandAbandoned ==
    [][DecodeFailed' => UNCHANGED <<tabs, windows, groups, activeWindow>>]_vars

\* The effects the command table gives the well-formed commands, in the
\* state right after each of them.
EffectsOfWellFormed ==
    /\ Was(kCommandSetTabWindow) =>
          \A w \in Ids, t \in Ids :
              After(SetTabWindowCmd(w, t)) => t \in DOMAIN tabs /\ tabs[t].win = w
    /\ Was(kCommandSetTabIndexInWindow) =>
          \A t \in Ids, x \in Indexes :
              After(SetTabIndexInWindowCmd(t, x)) => t \in DOMAIN tabs /\ tabs[t].idx = x
    /\ Was(kCommandUpdateTabNavigation) =>
          \A t \in Ids, h \in Indexes, x \in NavTexts :
              After(UpdateTabNavigationCmd(t, h, x)) =>
                  /\ t \in DOMAIN tabs
                  /\ \E i \in 1..Len(tabs[t].history) :
                        tabs[t].history[i] = [idx |-> h, url |-> x.url, title |-> x.title]
    /\ Was(kCommandSetSelectedNavigationIndex) =>
          \A t \in Ids, x \in Indexes :
              After(SetSelectedNavigationIndexCmd(t, x)) =>
                  t \in DOMAIN tabs /\ tabs[t].currentHistoryIdx = x
    /\ Was(kCommandSetSelectedTabInIndex) =>
          \A w \in Ids, x \in Indexes :
              After(SetSelectedTabInIndexCmd(w, x)) =>
                  w \in DOMAIN windows /\ windows[w].activeTabIdx = x
    /\ Was(kCommandTabClosed) =>
          \A t \in Ids : After(TabClosedCmd(t)) => t \in DOMAIN tabs /\ tabs[t].deleted
    /\ Was(kCommandWindowClosed) =>
          \A w \in Ids :
              After(WindowClosedCmd(w)) => w \in DOMAIN windows /\ windows[w].deleted
    /\ Was(kCommandSetActiveWindow) =>
          \A w \in Ids :
              After(SetActiveWindowCmd(w)) => w \in DOMAIN windows /\ activeWindow = {w}
    /\ Was(kCommandSetTabGroup) =>
          \A t \in Ids, g \in GroupIds :
              After(SetTabGroupCmd(t, g)) =>
                  t \in DOMAIN tabs /\ tabs[t].group # {} /\ tabs[t].group \subseteq DOMAIN groups
    /\ Was(kCommandSetTabGroupMetadata2) =>
          \A g \in GroupIds, n \in GroupNames :
              After(SetTabGroupMetadata2Cmd(g, n)) => \E k \in DOMAIN groups : groups[k].name = n

EndsInsideRecord(b) ==
    /\ Len(b) >= 1
    /\ Len(b) < 3 \/ (SizeField(b) >= 1 /\ Len(b) < 2 + SizeField(b))

\* C4: with a valid header and sizes of at least 1, parseSessionFile succeeds
\* exactly when the file ends where a record would start; a file that ends
\* inside a record gives an error and no entries.
C4_CleanEndOnly ==
    rec.kind = "loop" =>
        /\ rec.bytes = <<>> => pc = "done" /\ err = "nil"
        /\ pc = "done" => rec.bytes = <<>>
        /\ EndsInsideRecord(rec.bytes) => pc = "error" /\ err # "nil" /\ entries = <<>>

\* The file ended inside a payload after two commands had been processed.
C4_Witness ==
    /\ pc = "error"
    /\ nrec = 2
    /\ rec.kind = "loop" /\ Len(rec.bytes) = 6 /\ SizeField(rec.bytes) = 5

\* The header of the format: "SNSS" and a little-endian version of 1 or 3.
HeaderValid(b) ==
    /\ Len(b) >= 8
    /\ SubSeq(b, 1, 4) = <<83, 78, 83, 83>>
    /\ b[5] + 256 * b[6] + 65536 * b[7] + 16777216 * b[8] \in {1, 3}

\* C5: a file whose first 8 bytes are not a valid header gives an error and
\* no entries, and processCommand is never called on it.
C5_HeaderFatal ==
    (rec.kind = "header" /\ ~HeaderValid(rec.bytes)) =>
        /\ pc = "error" /\ err # "nil" /\ entries = <<>>
        /\ nrec = 0 /\ tabs = <<>> /\ windows = <<>> /\ groups = <<>> /\ activeWindow = {}

\* The header read was SNSS with version 2.
C5_Witness == pc = "error" /\ rec = Read("header", <<83, 78, 83, 83, 2, 0, 0, 0>>)

\* C6: a record of a type that is not one of the ten recognized ones is
\* discarded without error and leaves the whole store unchanged.
C6_UnrecognizedIgnored ==
    [][(Processed' /\ TypeByte(rec'.bytes) \notin RecognizedTypes) =>
            UNCHANGED <<tabs, windows, groups, activeWindow, pc, err, entries>>]_vars

\* A record of an unrecognized type was processed after a command that had
\* created a tab.
C6_Witness ==
    /\ Processed /\ TypeByte(rec.bytes) \notin RecognizedTypes
    /\ nrec = 2 /\ tabs # <<>>

\* C7: a tab for which a TabClosed command was processed never appears in
\* the output.  Right after TabClosed the tab is marked deleted; no step of
\* the record loop, and not the assembly, clears the mark, whatever command
\* it processes; and no entry of a returned list is built from a marked tab.
C7_ClosedTabNeverListed ==
    /\ [](\A t \in Ids : After(TabClosedCmd(t)) => t \in DOMAIN tabs /\ tabs[t].deleted)
    /\ [][pc' \in {"loop", "done"} =>
            \A t \in DOMAIN tabs : tabs[t].deleted => t \in DOMAIN tabs' /\ tabs'[t].deleted]_vars
    /\ [](pc = "done" => \A i \in 1..Len(entries) : ~tabs[entries[i].tab].deleted)

\* A result with no entry was returned for a store whose only tab has a URL
\* and is closed.
C7_Witness ==
    /\ pc = "done"
    /\ entries = <<>>
    /\ \E t \in DOMAIN tabs : tabs[t].deleted /\ CurrentItem(tabs[t]).url # <<>>

\* The windows that are not deleted.
LiveWindows == { w \in DOMAIN windows : ~windows[w].deleted }

\* C8: a deleted window contributes no entries and consumes no sequence
\* number.  In a returned list every entry comes from a window that is not
\* deleted, and with k such windows the windowIds are a one-to-one numbering
\* of them by 1..k: every entry has 1 <= windowId <= k.
C8_DeletedWindowSkipped ==
    pc = "done" =>
        LET k == Cardinality(LiveWindows)
        IN  /\ \A i \in 1..Len(entries) : entries[i].win \in LiveWindows
            /\ \A i \in 1..Len(entries) : entries[i].windowId \in 1..k
            /\ \E f \in [LiveWindows -> 1..k] :
                  /\ \A a, b \in LiveWindows : a # b => f[a] # f[b]
                  /\ \A i \in 1..Len(entries) : entries[i].windowId = f[entries[i].win]

\* A returned list with an entry, from a store with a deleted window.
C8_Witness ==
    /\ pc = "done"
    /\ \E w \in DOMAIN windows : windows[w].deleted
    /\ \E i \in 1..Len(entries) : entries[i].windowId = 1

\* The number of entries of the same window before entry i.
Position(es, i) == Cardinality({ j \in 1..(i - 1) : es[j].win = es[i].win })

\* C9: every emitted entry has a non-empty url.  A tab whose resolved URL is
\* empty (one with no history is such a tab) has no entry, and it does not
\* advance the position counter of its window: an entry is active exactly
\* when its window is the active one and the number of entries of that
\* window before it is activeTabIdx.
C9_NoEmptyUrl ==
    pc = "done" =>
        /\ \A i \in 1..Len(entries) : entries[i].url # <<>>
        /\ \A t \in DOMAIN tabs :
              CurrentItem(tabs[t]).url = <<>> => \A i \in 1..Len(entries) : entries[i].tab # t
        /\ \A i \in 1..Len(entries) :
              entries[i].active <=>
                  /\ activeWindow = {entries[i].win}
                  /\ windows[entries[i].win].activeTabIdx = Position(entries, i)

\* The active entry shares its window with a tab that is not closed and has
\* no URL.
C9_Witness ==
    /\ pc = "done"
    /\ \E i \in 1..Len(entries) :
          /\ entries[i].active
          /\ \E t \in DOMAIN tabs :
                /\ tabs[t].win = entries[i].win
                /\ ~tabs[t].deleted
                /\ CurrentItem(tabs[t]).url = <<>>

ActiveEntries == { i \in 1..Len(entries) : entries[i].active }

EntriesOf(w) == { i \in 1..Len(entries) : entries[i].win = w }

\* C10 as stated: exactly one entry is active, or none when no window is
\* marked active, and the active entry is at activeTabIdx in the active window.
C10_ExactlyOneActive ==
    pc = "done" =>
        /\ Cardinality(ActiveEntries) = IF activeWindow = {} THEN 0 ELSE 1
        /\ \A i \in ActiveEntries :
              /\ activeWindow = {entries[i].win}
              /\ Position(entries, i) = windows[entries[i].win].activeTabIdx

\* C10: at most one entry is active, and none when no window is marked
\* active.  There is one exactly when the active window is not deleted and
\* has more than activeTabIdx entries, and it is the entry at position
\* activeTabIdx among the entries of the active window.
C10_AtMostOneActive ==
    pc = "done" =>
        /\ Cardinality(ActiveEntries) <= 1
        /\ activeWindow = {} => ActiveEntries = {}
        /\ ActiveEntries # {} <=>
              \E w \in activeWindow :
                  ~windows[w].deleted /\ Cardinality(EntriesOf(w)) > windows[w].activeTabIdx
        /\ \A i \in ActiveEntries :
              /\ activeWindow = {entries[i].win}
              /\ Position(entries, i) = windows[entries[i].win].activeTabIdx

\* A returned list of two entries, one of them active.
C10_Witness ==
    /\ pc = "done"
    /\ Len(entries) = 2
    /\ Cardinality(ActiveEntries) = 1

\* The tab has no history item whose index is its currentHistoryIdx.
NoMatch(t) == \A i \in 1..Len(t.history) : t.history[i].idx # t.currentHistoryIdx

\* The item of a non-empty history with the greatest index.
GreatestItem(history) ==
    history[CHOOSE i \in 1..Len(history) :
                \A j \in 1..Len(history) : history[j].idx <= history[i].idx]

\* The entries built from tab t.
EntriesOfTab(t) == { i \in 1..Len(entries) : entries[i].tab = t }

\* C11: fallback law.  In a returned list, a tab that is not deleted, has a
\* history and has no item at its currentHistoryIdx resolves to the url and
\* title of the item with the greatest index: its entry carries them, and it
\* has an entry when that url is not empty and its window is not deleted.
C11_FallbackToGreatest ==
    pc = "done" =>
        \A t \in DOMAIN tabs :
            (~tabs[t].deleted /\ tabs[t].history # <<>> /\ NoMatch(tabs[t])) =>
                LET g == GreatestItem(tabs[t].history)
                IN  /\ \A i \in EntriesOfTab(t) :
                          entries[i].url = g.url /\ entries[i].title = g.title
                    /\ (g.url # <<>> /\ ~windows[tabs[t].win].deleted) => EntriesOfTab(t) # {}

\* A tab with two items of different URLs, none at its currentHistoryIdx,
\* has an entry.
C11_Witness ==
    /\ pc = "done"
    /\ \E t \in DOMAIN tabs :
          /\ NoMatch(tabs[t])
          /\ Len(tabs[t].history) = 2
          /\ tabs[t].history[1].url # tabs[t].history[2].url
          /\ tabs[t].history[1].url # <<>>
          /\ EntriesOfTab(t) # {}

\* The UpdateTabNavigation records of the navigation files, with what they say.
HistoryNavs ==
    { [t |-> t, h |-> h, x |-> x, bytes |-> Record(UpdateTabNavigationCmd(t, h, x))] :
        t \in HistoryTabs, h \in HistIdxs, x \in NavTexts }

OneItemPerIndex(history) ==
    \A i, j \in 1..Len(history) : i # j => history[i].idx # history[j].idx

HasIndex(history, h) == \E i \in 1..Len(history) : history[i].idx = h

\* C12: overwrite law.  Every history holds at most one item per index, in
\* every state; and the step that processes an UpdateTabNavigation for a tab
\* and an index the tab already has keeps the number of items and leaves,
\* at that index, the url and title of the command.
C12_OverwriteLaw ==
    /\ [](\A t \in DOMAIN tabs : OneItemPerIndex(tabs[t].history))
    /\ [][\A n \in HistoryNavs :
            (/\ rec' = Read("loop", n.bytes)
             /\ n.t \in DOMAIN tabs
             /\ HasIndex(tabs[n.t].history, n.h)) =>
                /\ Len(tabs'[n.t].history) = Len(tabs[n.t].history)
                /\ \E i \in 1..Len(tabs'[n.t].history) :
                      tabs'[n.t].history[i] = [idx |-> n.h, url |-> n.x.url, title |-> n.x.title]]_vars

\* The only tab has one item, from the UpdateTabNavigation just processed,
\* the second command of the file.
C12_Witness ==
    /\ After(UpdateTabNavigationCmd(0, 1, [url |-> <<98, 99>>, title |-> <<66>>]))
    /\ nrec = 2
    /\ DOMAIN tabs = {0}
    /\ tabs[0].history = <<[idx |-> 1, url |-> <<98, 99>>, title |-> <<66>>]>>

\* The orders in which the items of a history can have arrived.
Permuted(history) ==
    LET n == Len(history)
    IN  { [i \in 1..n |-> history[f[i]]] :
            f \in { g \in [1..n -> 1..n] : \A i, j \in 1..n : i # j => g[i] # g[j] } }

Ascending(history) ==
    \A i, j \in 1..Len(history) : i < j => history[i].idx < history[j].idx

\* The tab t as the first loop of buildTabEntries leaves it.
Assembled(t) == SortedTabs(0 :> t)[0]

\* C13: history order does not depend on command order.  During the record
\* loop a history holds its items in the order their indexes first arrived;
\* whichever of these orders it has, the assembly sorts it to the same
\* history and resolves the tab to the same url and title.  In a finished
\* parse every history is sorted ascending by index.
C13_HistoryOrderIndependent ==
    /\ pc = "loop" =>
          \A t \in DOMAIN tabs : \A p \in Permuted(tabs[t].history) :
              /\ Assembled([tabs[t] EXCEPT !.history = p]).history = Assembled(tabs[t]).history
              /\ CurrentItem(Assembled([tabs[t] EXCEPT !.history = p])) = CurrentItem(Assembled(tabs[t]))
    /\ pc = "done" => \A t \in DOMAIN tabs : Ascending(tabs[t].history)

\* Three items arrived with the indexes 2, 0, 1, in this order.
C13_Witness ==
    /\ pc = "loop"
    /\ nrec = 3
    /\ \E t \in DOMAIN tabs :
          /\ Len(tabs[t].history) = 3
          /\ tabs[t].history[1].idx = 2 /\ tabs[t].history[2].idx = 0 /\ tabs[t].history[3].idx = 1
          /\ tabs[t].history[1].url # tabs[t].history[3].url

\* C14: the output is ordered by window, then by position in the window.
\* In a returned list windowId never decreases, entries with the same
\* windowId are the entries of the same window, and among the entries of
\* one window the tab of an earlier entry has an idx that is not greater.
C14_OrderedByWindowThenIndex ==
    pc = "done" =>
        \A i, j \in 1..Len(entries) :
            i < j =>
                /\ entries[i].windowId <= entries[j].windowId
                /\ entries[i].windowId = entries[j].windowId <=> entries[i].win = entries[j].win
                /\ entries[i].win = entries[j].win =>
                      tabs[entries[i].tab].idx <= tabs[entries[j].tab].idx

\* Two entries of one window: tab 1, whose idx is smaller, before tab 0.
C14_Witness ==
    /\ pc = "done"
    /\ Len(entries) = 2
    /\ entries[1].win = entries[2].win
    /\ entries[1].tab = 1 /\ entries[2].tab = 0
    /\ tabs[1].idx < tabs[0].idx

\* The item of the history whose index is h.
ItemAt(history, h) == history[CHOOSE i \in 1..Len(history) : history[i].idx = h]

Emitted(w) ==
    { t \in DOMAIN tabs :
        tabs[t].win = w /\ ~tabs[t].deleted /\ CurrentItem(tabs[t]).url # <<>> }

\* The emitted tabs of its window that come before entry i.
EmittedBefore(i) == { entries[j].tab : j \in { k \in EntriesOf(entries[i].win) : k < i } }

\* C16: in a returned list the entries of a window that is not deleted are
\* its emitted tabs, one entry each; an entry is active exactly when its
\* window is the active window and the number of emitted tabs of that
\* window before it equals the window's activeTabIdx; and no window has two
\* active entries.
C16_ActiveByEmittedPosition ==
    pc = "done" =>
        /\ \A w \in LiveWindows :
              /\ { entries[i].tab : i \in EntriesOf(w) } = Emitted(w)
              /\ Cardinality(EntriesOf(w)) = Cardinality(Emitted(w))
        /\ \A i \in 1..Len(entries) :
              entries[i].active <=>
                  /\ activeWindow = {entries[i].win}
                  /\ Cardinality(EmittedBefore(i)) = windows[entries[i].win].activeTabIdx
        /\ \A w \in DOMAIN windows :
              Cardinality({ i \in EntriesOf(w) : entries[i].active }) <= 1

\* The active entry is built from a tab whose idx is not its position.
C16_Witness ==
    /\ pc = "done"
    /\ \E i \in 1..Len(entries) :
          /\ entries[i].active
          /\ tabs[entries[i].tab].idx # Cardinality(EmittedBefore(i))

\* The well-formed commands of Spec that set one field of a tab, and those
\* that set one field of a window: the entity, the field, the value, and
\* the record's bytes.
FieldCommand(id, field, v, c) == [id |-> id, field |-> field, v |-> v, bytes |-> Record(c)]

TabFieldCommands ==
    { FieldCommand(t, "win", w, SetTabWindowCmd(w, t)) : w \in Ids, t \in Ids }
    \cup { FieldCommand(t, "idx", x, SetTabIndexInWindowCmd(t, x)) : t \in Ids, x \in Indexes }
    \cup { FieldCommand(t, "currentHistoryIdx", x, SetSelectedNavigationIndexCmd(t, x)) :
              t \in Ids, x \in Indexes }

TabClosedCommands == { FieldCommand(t, "deleted", TRUE, TabClosedCmd(t)) : t \in Ids }

WindowFieldCommands ==
    { FieldCommand(w, "activeTabIdx", x, SetSelectedTabInIndexCmd(w, x)) : w \in Ids, x \in Indexes }

WindowClosedCommands == { FieldCommand(w, "deleted", TRUE, WindowClosedCmd(w)) : w \in Ids }

\* The entity with the given id before the step, zero-valued when it is new.
TabBefore(t) == IF t \in DOMAIN tabs THEN tabs[t] ELSE NewTab(t)

WindowBefore(w) == IF w \in DOMAIN windows THEN windows[w] ELSE NewWindow(w)

\* The step processes the command c and changes only what c names, on a tab.
OnlyTabField(c) ==
    rec' = Read("loop", c.bytes) =>
        /\ DOMAIN tabs' = DOMAIN tabs \cup {c.id}
        /\ \A u \in DOMAIN tabs \ {c.id} : tabs'[u] = tabs[u]
        /\ tabs'[c.id] = [TabBefore(c.id) EXCEPT ![c.field] = c.v]
        /\ UNCHANGED <<windows, groups, activeWindow>>

\* The same on a window.
OnlyWindowField(c) ==
    rec' = Read("loop", c.bytes) =>
        /\ DOMAIN windows' = DOMAIN windows \cup {c.id}
        /\ \A u \in DOMAIN windows \ {c.id} : windows'[u] = windows[u]
        /\ windows'[c.id] = [WindowBefore(c.id) EXCEPT ![c.field] = c.v]
        /\ UNCHANGED <<tabs, groups, activeWindow>>

\* C17: each of these commands changes only the field the command table
\* names, on the entity it names.  The step that processes it leaves every
\* other tab and window, the groups and the active window as they were,
\* adds no entity but the one named, and gives the named entity the value
\* in the named field and its earlier (or zero) value in every other field.
\* The step that processes any command other than UpdateTabNavigation
\* leaves every history as it was.
C17_OnlyNamedField ==
    /\ [][\A c \in TabFieldCommands : OnlyTabField(c)]_vars
    /\ [][\A c \in TabClosedCommands : OnlyTabField(c)]_vars
    /\ [][\A c \in WindowFieldCommands : OnlyWindowField(c)]_vars
    /\ [][\A c \in WindowClosedCommands : OnlyWindowField(c)]_vars
    /\ [][(Processed' /\ pc' = "loop" /\ TypeByte(rec'.bytes) # kCommandUpdateTabNavigation) =>
            \A t \in DOMAIN tabs' : tabs'[t].history = TabBefore(t).history]_vars

\* SetTabWindow(window 1, tab 0) was processed for a tab that had a history:
\* the tab is in window 1 and has its history.
C17_Witness ==
    /\ After(SetTabWindowCmd(1, 0))
    /\ tabs[0].win = 1
    /\ tabs[0].history # <<>>

\* C18: entities are created lazily and never removed.  In every state the
\* entity stored under an id is the one with that id (for a group, the one
\* whose ids give the key); no step of a parse that goes on removes a tab,
\* a window or a group, and none clears the deleted mark of a tab or of a
\* window: a command that names a deleted entity finds that entity.
C18_EntitiesOnlyGrow ==
    /\ [](/\ \A t \in DOMAIN tabs : tabs[t].id = t
          /\ \A w \in DOMAIN windows : windows[w].id = w
          /\ \A k \in DOMAIN groups : GroupKey(groups[k].high, groups[k].low) = k)
    /\ [][pc' \in {"loop", "done"} =>
            /\ DOMAIN tabs \subseteq DOMAIN tabs'
            /\ DOMAIN windows \subseteq DOMAIN windows'
            /\ DOMAIN groups \subseteq DOMAIN groups'
            /\ \A t \in DOMAIN tabs : tabs[t].deleted => tabs'[t].deleted
            /\ \A w \in DOMAIN windows : windows[w].deleted => windows'[w].deleted]_vars

\* SetTabWindow(window 1, tab 0) was processed after tab 0 was closed: the
\* only tab is tab 0, in window 1 and deleted.
C18_Witness ==
    /\ After(SetTabWindowCmd(1, 0))
    /\ DOMAIN tabs = {0}
    /\ tabs[0].deleted /\ tabs[0].win = 1

\* C19: the active-window reference is unset or is the window stored in the
\* window map under its own id, in every state; right after SetActiveWindow
\* it is the window the command names; and no step of a parse that goes on
\* changes it unless it processes a SetActiveWindow, so WindowClosed on the
\* active window leaves it set.
C19_ActiveWindowInMap ==
    /\ [](/\ Cardinality(activeWindow) <= 1
          /\ \A w \in activeWindow : w \in DOMAIN windows /\ windows[w].id = w)
    /\ [](\A w \in Ids : After(SetActiveWindowCmd(w)) => activeWindow = {w})
    /\ [][(pc' \in {"loop", "done"} /\ activeWindow' # activeWindow) =>
            Processed' /\ TypeByte(rec'.bytes) = kCommandSetActiveWindow]_vars

\* WindowClosed(window 1) was processed when window 1 was the active window.
C19_Witness ==
    /\ After(WindowClosedCmd(1))
    /\ activeWindow = {1}
    /\ windows[1].deleted

\* The well-formed SetTabGroupMetadata2 records of Spec, with what they say.
GroupMetadataCommands ==
    { [g |-> g, n |-> n, bytes |-> Record(SetTabGroupMetadata2Cmd(g, n))] :
        g \in GroupIds, n \in GroupNames }

\* The 64-bit value of a small number.
Wide(n) == [hi |-> 0, lo |-> n]

\* The name of the group instance of the pair g, empty when there is none.
PairName(g) ==
    LET k == GroupKey(Wide(g[1]), Wide(g[2]))
    IN  IF k \in DOMAIN groups THEN groups[k].name ELSE <<>>

\* C20: commands that name the same (high, low) pair act on one TabGroup
\* instance.  Right after SetTabGroup the group name of the tab is the name
\* of the pair; the step that processes SetTabGroupMetadata2 gives the pair
\* its name and leaves the name of every other pair as it was; and no other
\* command changes the name of a pair: the last metadata command for the
\* pair wins.
C20_OneGroupPerPair ==
    /\ [](\A t \in Ids, g \in GroupIds :
            After(SetTabGroupCmd(t, g)) => GroupName(store, tabs[t]) = PairName(g))
    /\ [][\A m \in GroupMetadataCommands :
            rec' = Read("loop", m.bytes) =>
                /\ PairName(m.g)' = m.n
                /\ \A g \in GroupIds \ {m.g} : PairName(g)' = PairName(g)]_vars
    /\ [][(Processed' /\ pc' = "loop" /\ TypeByte(rec'.bytes) # kCommandSetTabGroupMetadata2) =>
            \A g \in GroupIds : PairName(g)' = PairName(g)]_vars

\* ------------------------------------------------- further claims
\* The group name that belongs on the entry of the tab t: the name of the
\* group the tab references, empty when it references none.
ShownGroup(t) ==
    IF tabs[t].group = {} THEN <<>> ELSE groups[CHOOSE k \in tabs[t].group : TRUE].name

GroupAttachCommands ==
    { [t |-> t, g |-> g, bytes |-> Record(SetTabGroupCmd(t, g))] : t \in Ids, g \in GroupIds }

\* C21: a tab references at most one group, and the group field of its
\* entry is the name of that group, empty when the tab references none.  A
\* name set on another group than the one of the tab's last SetTabGroup
\* does not show: in a file of two records, a SetTabGroupMetadata2 for one
\* pair and then a SetTabGroup of a tab to another pair, the tab shows the
\* empty name.
C21_LastGroupNameShown ==
    /\ [](\A t \in DOMAIN tabs : Cardinality(tabs[t].group) <= 1)
    /\ [](pc = "done" =>
            \A i \in 1..Len(entries) : entries[i].group = ShownGroup(entries[i].tab))
    /\ [][\A m \in GroupMetadataCommands, a \in GroupAttachCommands :
            (nrec = 1 /\ rec = Read("loop", m.bytes) /\ rec' = Read("loop", a.bytes)
                /\ a.g # m.g) => ShownGroup(a.t)' = <<>>]_vars

\* The step in which the record loop ends and buildTabEntries runs.
Assembles == pc = "loop" /\ pc' = "done"

\* C22: assembly attaches every known tab to the window whose id is the
\* tab's windowId.  It inserts that window, zero-valued and so not deleted,
\* when the map has none, and changes no window it has.  The windowId of a
\* tab is 0 until a SetTabWindow names the tab.  A tab attached this way is
\* emitted like any other: when it is not deleted and has a URL, and its
\* window is not deleted, it has an entry in that window with a sequence
\* number.
C22_EveryTabHasItsWindow ==
    /\ [][Assembles =>
            /\ DOMAIN windows' = DOMAIN windows \cup { tabs[t].win : t \in DOMAIN tabs }
            /\ \A w \in DOMAIN windows' :
                 windows'[w] = IF w \in DOMAIN windows THEN windows[w] ELSE NewWindow(w)
            /\ \A i \in 1..Len(entries') : entries'[i].win = tabs[entries'[i].tab].win
            /\ \A t \in DOMAIN tabs :
                 (~tabs[t].deleted /\ CurrentItem(tabs[t]).url # <<>>
                     /\ ~windows'[tabs[t].win].deleted)
                 => \E i \in 1..Len(entries') :
                        /\ entries'[i].tab = t
                        /\ entries'[i].windowId \in 1..Cardinality(DOMAIN windows')]_vars
    /\ [][(Processed' /\ pc' = "loop" /\ TypeByte(rec'.bytes) # kCommandSetTabWindow) =>
            \A t \in DOMAIN tabs' :
                tabs'[t].win = IF t \in DOMAIN tabs THEN tabs[t].win ELSE 0]_vars

\* A file of two records, UpdateTabNavigation for a tab and WindowClosed for
\* window 1: the one entry is of window 0, which no command named, and has
\* sequence number 1.
C22_Witness ==
    /\ pc = "done" /\ nrec = 2
    /\ Len(entries) = 1 /\ entries[1].win = 0 /\ entries[1].windowId = 1
    /\ DOMAIN windows = {0, 1} /\ windows[1].deleted /\ windows[0] = NewWindow(0)

\* The length prefix of a buffer that holds one, and the bytes after it.
Prefix(b) == U32(b[4] * 256 + b[3], b[2] * 256 + b[1])

Remaining(b) == Len(b) - 4

\* rsz rounded up to a multiple of 4, the carry of the sum kept.
Align4NoWrap(rsz) == IF rsz.lo % 4 # 0 THEN Plus(rsz, 4 - (rsz.lo % 4)) ELSE rsz

\* The padded length of a string of n bytes, and of n two-byte code units,
\* computed without wraparound.
Padded(kind, n) == Align4NoWrap(IF kind = "readString" THEN n ELSE Twice(n))

\* The buffer holds a prefix and fewer bytes after it than the padded length.
TooFew(kind, b) ==
    /\ Len(b) >= 4
    /\ Padded(kind, Prefix(b)).hi > 0 \/ Padded(kind, Prefix(b)).lo > Remaining(b)

\* C23: a string read on a buffer with fewer bytes after the length prefix
\* than the padded length returns an error and no string, and does not
\* panic, for the byte strings and the wide strings and for every prefix.
C23_ShortStringReadFails ==
    (rec.kind \in {"readString", "readString16"} /\ TooFew(rec.kind, rec.bytes))
        => (pc = "returned" /\ err # "nil" /\ rec.v = <<>>)

\* parseSessionFile is over: it returned the entries, returned an error, or
\* the program ended in a panic.
Over == pc \in {"done", "error", "panic"}

\* C24: on every file parseSessionFile comes to an end.  An iteration of the
\* record loop ends the loop or takes sz + 2 bytes from the file, at least
\* 3, so the unread bytes get fewer; once the call is over nothing more
\* happens; and assembly returns no more entries than there are tabs.
C24_Terminates ==
    /\ <>Over
    /\ [][pc = "loop" =>
            \/ pc' # "loop"
            \/ /\ SizeField(rec.bytes) + 2 >= 3
               /\ Len(rec'.bytes) = Len(rec.bytes) - (SizeField(rec.bytes) + 2)]_vars
    /\ [][~Over]_vars
    /\ [](pc = "done" => Len(entries) <= Cardinality(DOMAIN tabs))

\* The call returned the entries of a file of two records, the second a
\* navigation: two iterations took their records and the third found the
\* end of the file.
C24_Witness ==
    /\ pc = "done" /\ nrec = 2 /\ rec.bytes = <<>> /\ Len(entries) = 1

\* C25: two different (high, low) pairs are two TabGroup instances.  A file
\* whose two records name two different pairs leaves two groups in the map,
\* and a SetTabGroupMetadata2 for one pair right after a SetTabGroup of a
\* tab to another pair leaves the group name shown for the tab as it was.
C25_PairsDenoteInstances ==
    /\ [][\A m \in GroupMetadataCommands, a \in GroupAttachCommands :
            (nrec = 1 /\ rec = Read("loop", a.bytes) /\ rec' = Read("loop", m.bytes)
                /\ a.g # m.g) => Cardinality(DOMAIN groups') = 2]_vars
    /\ [][\A m \in GroupMetadataCommands, a \in GroupAttachCommands :
            (rec = Read("loop", a.bytes) /\ rec' = Read("loop", m.bytes) /\ a.g # m.g)
                => ShownGroup(a.t)' = ShownGroup(a.t)]_vars

\* C26: parseSessionFile returns on every file, an entry list or an error:
\* it never panics, and an iteration of the record loop that reads a size
\* of 0 and a type byte returns an error.
C26_AlwaysReturns ==
    /\ pc # "panic"
    /\ (rec.kind = "loop" /\ Len(rec.bytes) >= 3 /\ SizeField(rec.bytes) = 0) => pc = "error"

\* An iteration of the record loop after which the loop goes on.
Iterates == pc = "loop" /\ pc' = "loop"

\* C27: an iteration that processes a record takes sz + 2 bytes from the
\* file, whatever the type and whatever the payload holds: the unread bytes
\* after it are the unread bytes before it without the first sz + 2.  The
\* store changes as processCommand changes it on the sz - 1 payload bytes
\* alone.
C27_FramingBySizeOnly ==
    [][Iterates =>
        /\ Len(rec.bytes) >= SizeField(rec.bytes) + 2
        /\ rec'.bytes = Drop(rec.bytes, SizeField(rec.bytes) + 2)
        /\ Store(tabs', windows', groups', activeWindow')
             = processCommand(store, TypeByte(rec.bytes),
                              SubSeq(rec.bytes, 4, SizeField(rec.bytes) + 2))]_vars

\* The two records of the file were processed: a SetTabWindow with the
\* window id 1 and no tab id, which put tab 0 in window 1, and the TabClosed
\* of tab 0 right after it.
C27_Witness ==
    /\ pc = "loop" /\ nrec = 2 /\ rec.bytes = <<>>
    /\ DOMAIN tabs = {0} /\ tabs[0].win = 1 /\ tabs[0].deleted

\* The two records of the file were processed: a SetTabIndexInWindow with
\* three bytes after its fields, and the TabClosed of tab 0 right after it.
C27_WitnessTrailing ==
    /\ pc = "loop" /\ nrec = 2 /\ rec.bytes = <<>>
    /\ DOMAIN tabs = {0} /\ tabs[0].idx = 1 /\ tabs[0].deleted

\* The tab t has an entry.
Listed(t) == \E i \in 1..Len(entries) : entries[i].tab = t

\* C28: a parse gives at most one entry for each tab id, so no more entries
\* than known tab ids, and the entry is in the window of the tab's last
\* SetTabWindow.  Only that window counts: a tab with a URL that is not
\* closed is listed when the window it is in at the end is not closed,
\* whatever happened to the windows it was in before, and is not listed when
\* that window is closed.
C28_OneEntryInLastWindow ==
    /\ \A w \in Ids, t \in Ids : After(SetTabWindowCmd(w, t)) => tabs[t].win = w
    /\ pc = "done" =>
          /\ \A i, j \in 1..Len(entries) : entries[i].tab = entries[j].tab => i = j
          /\ Len(entries) <= Cardinality(DOMAIN tabs)
          /\ \A i \in 1..Len(entries) : entries[i].win = tabs[entries[i].tab].win
          /\ \A t \in DOMAIN tabs :
                /\ windows[tabs[t].win].deleted => ~Listed(t)
                /\ (~windows[tabs[t].win].deleted /\ ~tabs[t].deleted
                        /\ CurrentItem(tabs[t]).url # <<>>) => Listed(t)

\* A file of three records: tab 0 got a URL, window 0 was closed and the
\* tab is in window 1 at the end; its entry is in window 1.
C28_Witness ==
    /\ pc = "done" /\ nrec = 3
    /\ DOMAIN windows = {0, 1} /\ windows[0].deleted /\ ~windows[1].deleted
    /\ Len(entries) = 1 /\ entries[1].tab = 0 /\ entries[1].win = 1

\* A file of three records: tab 0 got a URL and is in window 1 at the end,
\* window 1 was closed; there is no entry.
C28_WitnessClosed ==
    /\ pc = "done" /\ nrec = 3
    /\ DOMAIN tabs = {0} /\ ~tabs[0].deleted /\ CurrentItem(tabs[0]).url # <<>>
    /\ tabs[0].win = 1 /\ DOMAIN windows = {1} /\ windows[1].deleted /\ entries = <<>>

\* C29: a recognized command processed twice in a row, the same type and
\* the same payload, leaves the store as the first processing left it.
C29_Idempotent ==
    [][(Processed /\ Processed' /\ rec' = rec /\ pc' = "loop"
            /\ TypeByte(rec.bytes) \in RecognizedTypes)
        => (tabs' = tabs /\ windows' = windows /\ groups' = groups
                /\ activeWindow' = activeWindow)]_vars

\* The second record of the file, UpdateTabNavigation for tab 1 at history
\* index 1 with the url "bc", was processed, and the store is what one such
\* record leaves: the state after the record processed twice.
C29_Witness ==
    /\ pc = "loop" /\ nrec = 2
    /\ After(UpdateTabNavigationCmd(1, 1, [url |-> <<98, 99>>, title |-> <<66>>]))
    /\ DOMAIN tabs = {1} /\ Len(tabs[1].history) = 1
    /\ windows = <<>> /\ groups = <<>> /\ activeWindow = {}

\* The buffer holds a prefix and at least the padded length after it.
Enough(kind, b) ==
    /\ Len(b) >= 4
    /\ Padded(kind, Prefix(b)).hi = 0
    /\ Padded(kind, Prefix(b)).lo <= Remaining(b)

\* The n two-byte little-endian code units that follow the prefix of b.
CodeUnits(b, n) == [i \in 1..n |-> b[4 + 2 * i - 1] + 256 * b[4 + 2 * i]]

\* The navigation payload b with what precedes the title taken away: the
\* size, the id, the history index (4 bytes each), and the url with its
\* prefix and its padding.
FromTitle(b) == Drop(Drop(b, 12), 4 + Padded("readString", Prefix(Drop(b, 12))).lo)

\* C30: when the padded length is there, readString takes the 4 bytes of the
\* prefix n and n rounded up to a multiple of 4 and returns the first n
\* bytes after the prefix; readString16 takes 4 bytes and 2n rounded up
\* to a multiple of 4 and returns the text of the n little-endian code units
\* after the prefix; the title of UpdateTabNavigation is what readString16
\* reads right after the padding of the url.
C30_PaddedStringReads ==
    /\ (rec.kind \in {"readString", "readString16"} /\ Enough(rec.kind, rec.bytes)) =>
          /\ pc = "returned" /\ err = "nil"
          /\ rec.rest = Drop(rec.bytes, 4 + Padded(rec.kind, Prefix(rec.bytes)).lo)
          /\ rec.kind = "readString" =>
                rec.v = SubSeq(rec.bytes, 5, 4 + Prefix(rec.bytes).lo)
          /\ rec.kind = "readString16" =>
                rec.v = Decode(CodeUnits(rec.bytes, Prefix(rec.bytes).lo))
    /\ rec.kind = "title" =>
          /\ rec.v = readString16(FromTitle(rec.bytes)).v
          /\ rec.rest = readString16(FromTitle(rec.bytes)).rest
          /\ err = "nil"

\* A byte string of 5 bytes was read from a buffer with its 3 bytes of
\* padding, a wide string of 3 code units with a surrogate pair from a
\* buffer with its 2 bytes of padding.
C30_Witness ==
    /\ pc = "returned" /\ err = "nil"
    /\ \/ rec.kind = "readString" /\ Len(rec.v) = 5 /\ Len(rec.bytes) = 12 /\ rec.rest = <<>>
       \/ rec.kind = "readString16" /\ Prefix(rec.bytes).lo = 3 /\ Len(rec.v) = 2
            /\ Len(rec.bytes) = 12 /\ rec.rest = <<>>

====
